---------------------------- MODULE Spec2Model ----------------------------
(***************************************************************************)
(* A model of redcap/project.py: the capability table api_methods, the     *)
(* version gate Project._check_version, the bootstrap Project.configure    *)
(* and the data-handling methods of the Project handle.                    *)
(*                                                                         *)
(* Python values are encoded as follows.                                   *)
(*   - An attribute or argument that may be None is an option: None is the *)
(*     empty tuple and a value x is the one-element tuple <<x>>.           *)
(*   - A str is a sequence of symbols (each symbol a TLA+ string), so that *)
(*     ','.join and iteration over a str do what Python does.              *)
(*   - A call argument is a tagged value [t, v]: t is its Python type and  *)
(*     v its content (a sequence in every case).                           *)
(*   - A raised exception is a record [exc, msg, info]; exc = "" is a      *)
(*     normal return.                                                      *)
(***************************************************************************)
EXTENDS Integers, Sequences, FiniteSets, TLC

VARIABLES
    handle,     \* the Project object's cached attributes
    last,       \* the call in progress or just finished, with its outcome
    pc          \* the caller: "idle" between calls, "returned" holding a result

vars == <<handle, last, pc>>

----------------------------------------------------------------------------
(* Bounds of the model *)

\* longest metadata list the server returns
MaxFields == 2
\* most call arguments that differ from the fully supplied call
MaxOmitted == 1

----------------------------------------------------------------------------
(* Python values *)

None == <<>>
Some(x) == <<x>>
IsNone(o) == Len(o) = 0
Val(o) == o[1]

\* F applied to the value of x, with x evaluated once
Let(x, F(_)) == CHOOSE out \in {F(y) : y \in {x}} : TRUE

PyNone == [t |-> "none", v |-> <<>>]
PyStr(s) == [t |-> "str", v |-> s]
PyList(l) == [t |-> "list", v |-> l]
\* a list whose elements are mappings (decoded JSON rows), not str
PyRows == [t |-> "rows", v |-> <<"row">>]
PyFalse == [t |-> "bool", v |-> <<0>>]
PyTrue == [t |-> "bool", v |-> <<1>>]

\* a one-symbol str
S(x) == PyStr(<<x>>)

\* Python truth value: None, False, 0, '' and [] are false
Truthy(x) ==
    CASE x.t = "none" -> FALSE
      [] x.t \in {"int", "bool"} -> x.v # <<0>>
      [] OTHER -> Len(x.v) > 0

\* all([...]) over a tuple of values
All(xs) == \A i \in DOMAIN xs : Truthy(xs[i])

RECURSIVE JoinSeq(_, _)
JoinSeq(sep, parts) ==
    IF Len(parts) = 0 THEN <<>>
    ELSE IF Len(parts) = 1 THEN parts[1]
    ELSE parts[1] \o sep \o JoinSeq(sep, Tail(parts))

\* the elements str.join iterates over: the items of a list, the characters of a str
JoinParts(x) ==
    IF x.t = "str" THEN [i \in DOMAIN x.v |-> <<x.v[i]>>] ELSE x.v

\* ','.join(x) raises TypeError when an element of x is not a str
JoinOk(x) == x.t \in {"str", "list"}
Join(x) == PyStr(JoinSeq(<<",">>, JoinParts(x)))

----------------------------------------------------------------------------
(* Exceptions *)

NoExc == [exc |-> "", msg |-> "", info |-> <<>>]
Exc(e, m, i) == [exc |-> e, msg |-> m, info |-> i]
Raised(x) == x.exc # ""

----------------------------------------------------------------------------
(* semantic_version.Version: major.minor.patch, ordered by precedence *)

Version(a, b, c) == <<a, b, c>>

VersionLT(x, y) ==
    \/ x[1] < y[1]
    \/ x[1] = y[1] /\ x[2] < y[2]
    \/ x[1] = y[1] /\ x[2] = y[2] /\ x[3] < y[3]

----------------------------------------------------------------------------
(* The capability table *)

Entry(n, w) == [name |-> n, version |-> w]

api_methods ==
    (<<"export", "arm">> :> Entry("export_arms", Version(6, 0, 0))) @@
    (<<"export", "event">> :> Entry("export_events", Version(6, 0, 0))) @@
    (<<"export", "exportFieldNames">> :>
        Entry("export_list_of_export_field_names", Version(6, 0, 0))) @@
    (<<"export", "file">> :> Entry("export_file", Version(6, 0, 0))) @@
    (<<"export", "instrument">> :> Entry("export_instruments", Version(6, 0, 0))) @@
    (<<"export", "pdf">> :> Entry("export_pdf_file_of_instruments", Version(6, 4, 0))) @@
    (<<"export", "formEventMapping">> :>
        Entry("export_instrument_event_mappings", Version(6, 11, 0))) @@
    (<<"export", "metadata">> :> Entry("export_metadata", Version(6, 0, 0))) @@
    (<<"export", "project">> :> Entry("export_project_info", Version(6, 5, 0))) @@
    (<<"export", "record">> :> Entry("export_records", Version(6, 0, 0))) @@
    (<<"export", "report">> :> Entry("export_reports", Version(6, 0, 0))) @@
    (<<"export", "version">> :> Entry("export_redcap_version", Version(6, 0, 0))) @@
    (<<"export", "surveyLink">> :> Entry("export_survey_link", Version(6, 4, 0))) @@
    (<<"export", "surveyParticipantList">> :>
        Entry("export_survey_participants", Version(6, 4, 0))) @@
    (<<"export", "surveyQueueLink">> :>
        Entry("export_survey_queue_link", Version(6, 4, 0))) @@
    (<<"export", "surveyReturnCode">> :>
        Entry("export_survey_return_code", Version(6, 4, 0))) @@
    (<<"export", "user">> :> Entry("export_users", Version(6, 0, 0))) @@
    (<<"import", "arm">> :> Entry("import_arms", Version(6, 11, 0))) @@
    (<<"import", "event">> :> Entry("import_events", Version(6, 11, 0))) @@
    (<<"import", "file">> :> Entry("import_file", Version(6, 11, 0))) @@
    (<<"import", "formEventMapping">> :>
        Entry("import_instrument_event_mappings", Version(6, 11, 0))) @@
    (<<"import", "metadata">> :> Entry("import_metadata", Version(6, 11, 0))) @@
    (<<"import", "record">> :> Entry("import_records", Version(6, 0, 0))) @@
    (<<"import", "user">> :> Entry("import_users", Version(6, 11, 0))) @@
    (<<"delete", "arm">> :> Entry("delete_arms", Version(6, 11, 0))) @@
    (<<"delete", "event">> :> Entry("delete_events", Version(6, 11, 0))) @@
    (<<"delete", "file">> :> Entry("delete_file", Version(6, 0, 0))) @@
    (<<"create", "project">> :> Entry("create_project", Version(6, 11, 0)))

\* the actions and content types the callers of the model use
Actions == {"export", "import", "delete", "create"}
Contents == {k[2] : k \in DOMAIN api_methods} \cup {"participantList"}

\* the cached server versions of the model
Versions ==
    {Version(5, 9, 0), Version(6, 0, 0), Version(6, 4, 0), Version(6, 11, 0)}

\* What `None < Version(...)` does depends on the build: Python 3 raises TypeError,
\* Python 2 orders None below every object.
NoneLessThan == {"TypeError", "True"}


----------------------------------------------------------------------------
(* The Project handle *)

\* The attributes configure caches, in the order the class body declares them.
CachedFields ==
    {"redcap_version", "metadata", "field_names", "def_field", "field_labels",
     "forms", "events", "arm_nums", "arm_names", "is_longitudinal", "project_info"}

\* __init__ with lazy = True: every cached attribute is None, configured is False.
\* (With lazy = False __init__ ends in configure.)
NewProject ==
    [redcap_version |-> None, metadata |-> None, field_names |-> None,
     def_field |-> None, field_labels |-> None, forms |-> None, events |-> None,
     arm_nums |-> None, arm_names |-> None, configured |-> FALSE,
     is_longitudinal |-> None, project_info |-> None]

PyInt(n) == [t |-> "int", v |-> <<n>>]

\* x == True: True itself and the integer 1
EqTrue(o) == ~IsNone(o) /\ Val(o).t \in {"int", "bool"} /\ Val(o).v = <<1>>

\* _check_version with `<=` in place of `<`: a version equal to the minimum is refused
_check_version_le(h, content, action, nonelt) ==
    IF <<action, content>> \notin DOMAIN api_methods
    THEN Exc("RedcapError", "Method does not exist", <<action, content>>)
    ELSE LET e == api_methods[<<action, content>>]
         IN  IF IsNone(h.redcap_version)
             THEN Exc("TypeError", "unorderable types", <<>>)
             ELSE IF ~VersionLT(e.version, Val(h.redcap_version))
                  THEN Exc("RedcapError", "Invalid REDCap version",
                           <<e.name, e.version, h.redcap_version>>)
                  ELSE NoExc

\* _check_version that treats a missing table entry as "nothing to check"
_check_version_silent(h, content, action, nonelt) ==
    IF <<action, content>> \notin DOMAIN api_methods
    THEN NoExc
    ELSE LET e == api_methods[<<action, content>>]
         IN  IF IsNone(h.redcap_version)
             THEN Exc("TypeError", "unorderable types", <<>>)
             ELSE IF VersionLT(Val(h.redcap_version), e.version)
                  THEN Exc("RedcapError", "Invalid REDCap version",
                           <<e.name, e.version, h.redcap_version>>)
                  ELSE NoExc

\* Project._check_version: the exception it raises, or NoExc.
\* info of the version error: the method name, its earliest version, the current
\* version, as the message prints them.
_check_version(h, content, action, nonelt) ==
    IF <<action, content>> \notin DOMAIN api_methods
    THEN Exc("RedcapError", "Method does not exist", <<action, content>>)
    ELSE LET e == api_methods[<<action, content>>]
         IN  IF IsNone(h.redcap_version)
             THEN IF nonelt = "TypeError"
                  THEN Exc("TypeError", "unorderable types", <<>>)
                  ELSE Exc("RedcapError", "Invalid REDCap version",
                           <<e.name, e.version, None>>)
             ELSE IF VersionLT(Val(h.redcap_version), e.version)
                  THEN Exc("RedcapError", "Invalid REDCap version",
                           <<e.name, e.version, h.redcap_version>>)
                  ELSE NoExc

----------------------------------------------------------------------------
(* The transport: RCRequest(url, payload, typpe).execute() *)

\* What one request meets: a decoded body with the response headers, or an exception
\* (RequestException, or another exception such as a decoding error).
Response(st, b, ct) == [status |-> st, body |-> b, ctype |-> ct]

ErrBody == [t |-> "dict", v |-> << <<"error", "msg">> >>]
ListBody(l) == [t |-> "list", v |-> l]
DictBody(kvs) == [t |-> "dict", v |-> kvs]
NoBody == [t |-> "none", v |-> <<>>]

TransportFailures ==
    {Response("RequestException", NoBody, None), Response("Exception", NoBody, None)}

Ok(b) == Response("ok", b, None)

\* 'error' in x: a key of a mapping, an element of a list, a substring of a str
HasError(x) ==
    CASE x.t = "dict" -> \E i \in DOMAIN x.v : x.v[i][1] = "error"
      [] x.t = "str" -> \E i \in DOMAIN x.v : x.v[i] = "error"
      [] OTHER -> FALSE

\* isinstance(x, dict) and 'error' in x.keys()
IsErrorDict(x) == x.t = "dict" /\ HasError(x)

Request(typpe, pl, files) == [typpe |-> typpe, payload |-> pl, files |-> files]

\* Project._call_api: one request; the response tuple or the exception
_call_api(pl, typpe, files, resp) ==
    [requests |-> <<Request(typpe, pl, files)>>,
     exc |-> IF resp.status = "ok" THEN NoExc ELSE Exc(resp.status, "transport", <<>>),
     body |-> resp.body,
     ctype |-> resp.ctype]

----------------------------------------------------------------------------
(* Payloads *)

Token == S("TOKEN")

\* Project.__basepl
__basepl(content, rec_type, format) ==
    LET d == ("token" :> Token) @@ ("content" :> S(content)) @@ ("format" :> S(format))
    IN  IF content \notin {"metadata", "file"} THEN ("type" :> S(rec_type)) @@ d ELSE d

\* The loop `for key, data in zip(str_add, to_add)`: a true value is stored under its
\* key, comma-joined first when the key is one of `joined`; join raises TypeError on
\* an element that is not a str. Returns the payload and the exception, if any.
RECURSIVE AddParams(_, _, _, _, _)
AddParams(pl, keys, vals, joined, i) ==
    IF i > Len(keys) \/ i > Len(vals) THEN [pl |-> pl, exc |-> NoExc]
    ELSE IF ~Truthy(vals[i]) THEN AddParams(pl, keys, vals, joined, i + 1)
    ELSE IF keys[i] \in joined
         THEN IF JoinOk(vals[i])
              THEN AddParams((keys[i] :> Join(vals[i])) @@ pl, keys, vals, joined, i + 1)
              ELSE [pl |-> pl, exc |-> Exc("TypeError", "join: expected str", <<keys[i]>>)]
         ELSE AddParams((keys[i] :> vals[i]) @@ pl, keys, vals, joined, i + 1)

----------------------------------------------------------------------------
(* export_data *)

\* the keyword arguments of export_data and their defaults
DefaultExportOpts ==
    [report_id |-> PyNone, arms |-> PyNone, field |-> PyNone,
     raw_or_label |-> S("raw"), raw_or_label_headers |-> S("raw"),
     exportcheckboxlabel |-> PyFalse, record |-> PyNone, event |-> PyNone,
     forms |-> PyNone, instrument |-> PyNone, all_records |-> PyNone,
     records |-> PyNone, fields |-> PyNone, events |-> PyNone,
     event_name |-> S("label"), export_survey_fields |-> PyFalse,
     export_data_access_groups |-> PyNone, export_checkbox_labels |-> PyFalse]

\* str_add of export_data
ExportKeys ==
    <<"arms", "field", "report_id", "rawOrLabel", "rawOrLabelHeadHeaders",
      "exportCheckboxLabel", "record", "event", "instrument", "records", "fields",
      "events", "event_name", "export_survey_fields", "export_data_access_groups",
      "export_checkbox_labels", "form", "allrecords">>

\* to_add of export_data; `event` is the local the precheck has rebound
ExportArgs(o, event) ==
    <<o.arms, o.field, o.report_id, o.raw_or_label, o.raw_or_label_headers,
      o.exportcheckboxlabel, o.record, event, o.instrument, o.records, o.fields,
      o.events, o.event_name, o.export_survey_fields, o.export_data_access_groups,
      o.export_checkbox_labels, o.forms, o.all_records>>

ExportJoined == {"fields", "records", "forms", "events"}

\* str.split(sep) on a sequence of symbols
RECURSIVE Split(_, _)
Split(s, sep) ==
    IF \A i \in DOMAIN s : s[i] # sep THEN <<s>>
    ELSE LET k == CHOOSE i \in DOMAIN s : s[i] = sep /\ \A j \in 1..(i - 1) : s[j] # sep
         IN  <<SubSeq(s, 1, k - 1)>> \o Split(SubSeq(s, k + 1, Len(s)), sep)

\* str.strip(): leading and trailing blanks removed
RECURSIVE Strip(_)
Strip(s) ==
    IF Len(s) = 0 THEN s
    ELSE IF s[1] = " " THEN Strip(Tail(s))
    ELSE IF s[Len(s)] = " " THEN Strip(SubSeq(s, 1, Len(s) - 1))
    ELSE s

\* str.replace('"', '')
Unquote(s) == SelectSeq(s, LAMBDA c : c # "\"")

\* The map read from the content-type header: the segments between ';' that hold an
\* '=', each as (text before the first '=', text up to the second '=' without quotes);
\* dict() keeps the last pair of a repeated key.
ContentMap(ctype) ==
    IF IsNone(ctype) THEN DictBody(<<>>)
    ELSE LET splat == [i \in DOMAIN Split(Val(ctype), ";") |->
                          Strip(Split(Val(ctype), ";")[i])]
             withEq == SelectSeq(splat, LAMBDA kv : \E i \in DOMAIN kv : kv[i] = "=")
             pairs == [i \in DOMAIN withEq |->
                          <<Split(withEq[i], "=")[1], Unquote(Split(withEq[i], "=")[2])>>]
             keep == {i \in DOMAIN pairs :
                          \A j \in DOMAIN pairs : j > i => pairs[j][1] # pairs[i][1]}
             firstOf(k) == CHOOSE i \in DOMAIN pairs :
                               pairs[i][1] = k /\ \A j \in 1..(i - 1) : pairs[j][1] # k
             order == SelectSeq([i \in DOMAIN pairs |-> i],
                                LAMBDA i : firstOf(pairs[i][1]) = i)
             lastOf(k) == CHOOSE i \in keep : pairs[i][1] = k
         IN  DictBody([n \in DOMAIN order |->
                          <<pairs[order[n]][1], pairs[lastOf(pairs[order[n]][1])][2]>>])

ExportResult(e, reqs, r, printed, warned) ==
    [exc |-> e, requests |-> reqs, ret |-> r, printed |-> printed, warned |-> warned]

\* export_data after the precheck, lines 403-451. interned: whether `content` is the
\* very object of the literal it equals (the `is` test); pandas: whether read_csv
\* was imported.
export_body(h, content, interned, format, opts, resp, pandas) ==
    Let(AddParams(__basepl(content, "flat", IF format = "df" THEN "csv" ELSE format),
                  ExportKeys, ExportArgs(opts, S("filler")), ExportJoined, 1),
        LAMBDA built :
        IF Raised(built.exc) THEN ExportResult(built.exc, <<>>, None, FALSE, FALSE)
        ELSE IF interned /\ content = "pdf"
        THEN Let(_call_api(built.pl, "exp_pdf", FALSE, resp), LAMBDA r :
                 IF Raised(r.exc) THEN ExportResult(r.exc, r.requests, None, FALSE, FALSE)
                 ELSE ExportResult(NoExc, r.requests,
                          Some([t |-> "tuple", v |-> <<r.body, ContentMap(r.ctype)>>]),
                          FALSE, FALSE))
        ELSE Let(_call_api(built.pl, "exp_" \o content, FALSE, resp), LAMBDA r :
                 IF Raised(r.exc) THEN ExportResult(r.exc, r.requests, None, FALSE, FALSE)
                 ELSE IF format \in {"json", "csv", "xml"}
                      THEN ExportResult(NoExc, r.requests, Some(r.body), FALSE, FALSE)
                 ELSE IF ~pandas /\ format = "df"
                      THEN ExportResult(NoExc, r.requests, Some(r.body), FALSE, TRUE)
                 ELSE IF format = "df"
                      THEN IF r.body.t = "str"
                           THEN ExportResult(NoExc, r.requests,
                                    Some([t |-> "df", v |-> <<r.body>>]), FALSE, FALSE)
                           ELSE ExportResult(Exc("TypeError", "StringIO: not a str", <<>>),
                                    r.requests, None, FALSE, FALSE)
                 ELSE ExportResult(NoExc, r.requests, None, FALSE, FALSE)))

\* export_data whose precheck leaves out `self.is_longitudinal == True`
export_data_any_project(h, content, interned, format, opts, resp, pandas) ==
    IF /\ opts.event.t = "none"
       /\ content \in {"surveyReturnCode", "surveyParticipantList"}
    THEN ExportResult(NoExc, <<>>, None, TRUE, FALSE)
    ELSE export_body(h, content, interned, format, opts, resp, pandas)

\* Project.export_data: the precheck of lines 395-400 (a message is printed and None
\* returned), then the rest
export_data(h, content, interned, format, opts, resp, pandas) ==
    IF /\ EqTrue(h.is_longitudinal)
       /\ opts.event.t = "none"
       /\ content \in {"surveyReturnCode", "surveyParticipantList"}
    THEN ExportResult(NoExc, <<>>, None, TRUE, FALSE)
    ELSE export_body(h, content, interned, format, opts, resp, pandas)

----------------------------------------------------------------------------
(* configure *)

\* Project.filter_metadata: [field[key] for field in self.metadata if key in field],
\* KeyError when the list is empty. Iterating a mapping yields its keys, none of which
\* contains a metadata key; iterating None raises TypeError.
filter_metadata(h, key) ==
    IF IsNone(h.metadata)
    THEN [exc |-> Exc("TypeError", "'NoneType' object is not iterable", <<>>), val |-> <<>>]
    ELSE LET md == Val(h.metadata)
             has == IF md.t = "list"
                    THEN SelectSeq(md.v, LAMBDA field : key \in DOMAIN field)
                    ELSE <<>>
             filtered == [i \in DOMAIN has |-> has[i][key]]
         IN  IF Len(filtered) = 0
             THEN [exc |-> Exc("KeyError", "Key not found in metadata", <<key>>),
                   val |-> <<>>]
             ELSE [exc |-> NoExc, val |-> filtered]

\* Project.rcv: the version export, then the test `'error' in rcv`, whose name `rcv`
\* is bound neither in the method nor in the module: NameError.
rcv(h, resp) ==
    Let(export_data(h, "version", TRUE, "json", DefaultExportOpts, resp, FALSE),
        LAMBDA rc :
        IF Raised(rc.exc)
        THEN [exc |-> rc.exc, requests |-> rc.requests, ret |-> None, warned |-> FALSE]
        ELSE [exc |-> Exc("NameError", "name 'rcv' is not defined", <<>>),
              requests |-> rc.requests, ret |-> None, warned |-> FALSE])

\* The contents configure exports, in order
BootContents == <<"metadata", "version", "project", "event", "arm">>

\* A configure call under way: the handle so far, the exception raised (if any), the
\* requests issued, the attributes assigned and whether a warning was emitted.
Run(h, e, reqs, assigned, warned) ==
    [h |-> h, exc |-> e, requests |-> reqs, assigned |-> assigned, warned |-> warned]

Fail(run, e, reqs) == [run EXCEPT !.exc = e, !.requests = run.requests \o reqs]

\* lines 130-133 followed by `self.configured = True`
configure_metadata_marks(run, srv) ==
    Let(export_data(run.h, "metadata", TRUE, "json", DefaultExportOpts,
                    srv["metadata"], FALSE),
        LAMBDA m :
        IF m.exc.exc = "RequestException"
        THEN Fail(run, Exc("RedcapError", "Exporting metadata failed", <<>>), m.requests)
        ELSE IF Raised(m.exc) THEN Fail(run, m.exc, m.requests)
        ELSE Run([run.h EXCEPT !.metadata = m.ret, !.configured = TRUE], NoExc,
                 run.requests \o m.requests,
                 run.assigned \cup {"metadata", "configured"}, run.warned))

\* lines 130-133
configure_metadata(run, srv) ==
    Let(export_data(run.h, "metadata", TRUE, "json", DefaultExportOpts,
                    srv["metadata"], FALSE),
        LAMBDA m :
        IF m.exc.exc = "RequestException"
        THEN Fail(run, Exc("RedcapError", "Exporting metadata failed", <<>>), m.requests)
        ELSE IF Raised(m.exc) THEN Fail(run, m.exc, m.requests)
        ELSE Run([run.h EXCEPT !.metadata = m.ret], NoExc, run.requests \o m.requests,
                 run.assigned \cup {"metadata"}, run.warned))

\* lines 134-137: the bare except turns every exception into the version error
configure_version(run, srv) ==
    IF Raised(run.exc) THEN run
    ELSE Let(rcv(run.h, srv["version"]), LAMBDA w :
             IF Raised(w.exc)
             THEN Fail(run, Exc("RedcapError", "Determination of REDCap version failed",
                                <<>>), w.requests)
             ELSE Run([run.h EXCEPT !.redcap_version = w.ret], NoExc,
                      run.requests \o w.requests,
                      run.assigned \cup {"redcap_version"}, run.warned \/ w.warned))

\* lines 138-142: project_info is assigned before its 'is_longitudinal' is read
configure_project(run, srv) ==
    IF Raised(run.exc) THEN run
    ELSE Let(export_data(run.h, "project", TRUE, "json", DefaultExportOpts,
                         srv["project"], FALSE),
             LAMBDA p :
             LET h1 == [run.h EXCEPT !.project_info = p.ret]
                 info == Val(p.ret)
                 at == {i \in DOMAIN info.v : info.v[i][1] = "is_longitudinal"}
             IN  IF p.exc.exc = "RequestException"
                 THEN Fail(run, Exc("RedcapError", "Exporting project information failed",
                                    <<>>), p.requests)
                 ELSE IF Raised(p.exc) THEN Fail(run, p.exc, p.requests)
                 ELSE IF info.t # "dict"
                 THEN Fail(Run(h1, NoExc, run.requests,
                               run.assigned \cup {"project_info"}, run.warned),
                           Exc("TypeError", "indices must be integers", <<>>), p.requests)
                 ELSE IF at = {}
                 THEN Fail(Run(h1, NoExc, run.requests,
                               run.assigned \cup {"project_info"}, run.warned),
                           Exc("KeyError", "is_longitudinal", <<>>), p.requests)
                 ELSE Run([h1 EXCEPT !.is_longitudinal =
                              Some(info.v[CHOOSE i \in at : TRUE][2])],
                          NoExc, run.requests \o p.requests,
                          run.assigned \cup {"project_info", "is_longitudinal"},
                          run.warned))

\* lines 144-148
configure_derive(run) ==
    IF Raised(run.exc) THEN run
    ELSE Let(filter_metadata(run.h, "field_name"), LAMBDA names :
         Let(filter_metadata(run.h, "field_label"), LAMBDA labels :
             LET h1 == [run.h EXCEPT !.field_names = Some(names.val)]
                 h2 == [h1 EXCEPT !.def_field = Some(names.val[1])]
                 h3 == [h2 EXCEPT !.field_labels = Some(labels.val)]
                 md == Val(run.h.metadata).v
             IN  IF Raised(names.exc) THEN Fail(run, names.exc, <<>>)
                 ELSE IF Raised(labels.exc)
                 THEN Fail(Run(h2, NoExc, run.requests,
                               run.assigned \cup {"field_names", "def_field"},
                               run.warned),
                           labels.exc, <<>>)
                 ELSE IF \E i \in DOMAIN md : "form_name" \notin DOMAIN md[i]
                 THEN Fail(Run(h3, NoExc, run.requests,
                               run.assigned \cup
                                   {"field_names", "def_field", "field_labels"},
                               run.warned),
                           Exc("KeyError", "form_name", <<>>), <<>>)
                 ELSE Run([h3 EXCEPT !.forms =
                              Some({md[i].form_name : i \in DOMAIN md})],
                          NoExc, run.requests,
                          run.assigned \cup
                              {"field_names", "def_field", "field_labels", "forms"},
                          run.warned)))

\* lines 151-169: an exception of either export propagates as it is
configure_events_arms(run, srv) ==
    IF Raised(run.exc) THEN run
    ELSE Let(export_data(run.h, "event", TRUE, "json", DefaultExportOpts,
                         srv["event"], FALSE), LAMBDA ev :
         IF Raised(ev.exc) THEN Fail(run, ev.exc, ev.requests)
         ELSE
         Let(export_data(run.h, "arm", TRUE, "json", DefaultExportOpts,
                         srv["arm"], FALSE), LAMBDA arm :
             LET ev_data == Val(ev.ret)
                 arm_data == Val(arm.ret)
                 events == IF IsErrorDict(ev_data) THEN <<>> ELSE ev_data.v
                 arm_nums == IF IsErrorDict(arm_data) THEN <<>>
                             ELSE [i \in DOMAIN arm_data.v |-> arm_data.v[i].arm_num]
                 arm_names == IF IsErrorDict(arm_data) THEN <<>>
                              ELSE [i \in DOMAIN arm_data.v |-> arm_data.v[i].name]
             IN  IF Raised(arm.exc)
                 THEN Fail(run, arm.exc, ev.requests \o arm.requests)
                 ELSE Run([run.h EXCEPT !.events = Some(events),
                                        !.arm_nums = Some(arm_nums),
                                        !.arm_names = Some(arm_names),
                                        !.configured = TRUE],
                          NoExc, run.requests \o ev.requests \o arm.requests,
                          run.assigned \cup
                              {"events", "arm_nums", "arm_names", "configured"},
                          run.warned)))

\* Project.configure against a server that answers the five exports with srv
configure(h, srv) ==
    Let(configure_metadata(Run(h, NoExc, <<>>, {}, FALSE), srv), LAMBDA r1 :
    Let(configure_version(r1, srv), LAMBDA r2 :
    Let(configure_project(r2, srv), LAMBDA r3 :
    Let(configure_derive(r3), LAMBDA r4 :
        configure_events_arms(r4, srv)))))

----------------------------------------------------------------------------
(* import_data *)

\* the keyword arguments of import_data, all supplied
ImportSupplied ==
    [data |-> PyStr(<<"[", "]">>), override |-> S("0"), event |-> S("event_1_arm_1"),
     field |-> S("upload"), file |-> [t |-> "file", v |-> <<"fobj">>],
     record |-> S("1"), typpe |-> S("flat"), overwriteBehavior |-> S("normal"),
     dateFormat |-> S("YMD"), returnContent |-> S("count"), format |-> S("json"),
     returnFormat |-> S("json"), df_kwargs |-> PyNone]

\* the defaults of the signature: what a call that passes only `content` has
ImportDefaults ==
    [ImportSupplied EXCEPT !.data = PyNone, !.event = PyNone, !.field = PyNone,
                           !.file = PyNone, !.record = PyNone]

\* the other values a caller passes for an argument: None, and for `data` a list of
\* rows (mappings) and a list of str as well
ImportOther(p) ==
    CASE p = "data" -> {PyNone, PyRows, PyList(<< <<"r1">>, <<"r2">> >>)}
      [] p = "format" -> {S("df")}
      [] p \in {"dateFormat", "returnContent", "returnFormat", "df_kwargs"} -> {}
      [] OTHER -> {PyNone}

\* the argument records that differ from one of `calls` in at most k arguments
RECURSIVE Varied(_, _, _)
Varied(calls, other(_), k) ==
    IF k = 0 THEN calls
    ELSE Varied(calls \cup
                UNION {UNION {{[a EXCEPT ![p] = x] : x \in other(p)} : p \in DOMAIN a} :
                       a \in calls},
                other, k - 1)

ImportCalls == Varied({ImportSupplied}, ImportOther, MaxOmitted) \cup {ImportDefaults}

ImportResult(e, reqs, r) == [exc |-> e, requests |-> reqs, ret |-> r]

\* the check for required parameters of import_data, lines 574-590: the exception
\* raised, or NoExc. `is` holds of the content when it is the literal's own object.
import_required(h, content, interned, action, a) ==
    LET Is(lit) == interned /\ content = lit
        act == S(action)
    IN  IF Is("arm") /\ ~All(<<act, a.data, a.override>>)
        THEN Exc("RedcapError", "[data,override] required for import_arm", <<>>)
        ELSE IF Is("event")
        THEN Exc("NameError", "name 'events' is not defined", <<>>)
        ELSE IF /\ Is("file")
                /\ ~All(<<act, a.data, a.file, a.event, a.override>>)
                /\ EqTrue(h.is_longitudinal)
        THEN Exc("RedcapError",
                 "[record,field,event,file] is required for longitudinal import_file",
                 <<>>)
        ELSE IF Is("file") /\ ~All(<<act, a.record, a.field, a.file>>)
        THEN Exc("RedcapError", "[record,field,file] is required for import_file", <<>>)
        ELSE IF Is("formEventMapping") /\ ~All(<<a.data>>)
        THEN Exc("RedcapError", "[data] is required for import_formEventMapping", <<>>)
        ELSE IF Is("metadata") /\ ~All(<<a.data>>)
        THEN Exc("RedcapError", "[data] is required for import_metadata", <<>>)
        ELSE IF Is("record") /\ ~All(<<a.typpe, a.overwriteBehavior, a.data>>)
        THEN Exc("RedcapError",
                 "[typpe, overwriteBehavior, data] is required for import_record", <<>>)
        ELSE IF Is("user") /\ ~All(<<S("data")>>)
        THEN Exc("RedcapError", "[data] is required for import_user", <<>>)
        ELSE NoExc

\* str_add and to_add of import_data
ImportKeys ==
    <<"action", "data", "override", "record", "field", "event", "file", "type",
      "overwriteBehavior", "dateFormat", "returnContent">>

ImportArgs(action, a) ==
    <<S(action), a.data, a.override, a.record, a.field, a.event, a.file, a.typpe,
      a.overwriteBehavior, a.dateFormat, a.returnContent>>

ImportJoined == {"data", "fields", "records", "forms", "events"}

\* What the 'df' branch of import_data does with the response tuple depends on the
\* build: StringIO refuses a tuple (Python 3), or read_csv is None or fails on the
\* text of the tuple, or it returns a table.
DfOutcomes == {"TypeError", "ValueError", "df"}

\* `'error' in response` on the tuple (body, headers): true when an element of the
\* tuple equals 'error'
ErrorInTuple(body, ctype) == body = S("error") \/ ctype = Some(<<"error">>)

\* import_data after the version gate, lines 574-625
import_body(h, content, interned, action, a, resp, dfout) ==
    Let(import_required(h, content, interned, action, a), LAMBDA req :
    IF Raised(req) THEN ImportResult(req, <<>>, None)
    ELSE
    Let(AddParams(__basepl(content, "flat", a.returnFormat.v[1]), ImportKeys,
                  ImportArgs(action, a), ImportJoined, 1), LAMBDA built :
    IF Raised(built.exc) THEN ImportResult(built.exc, <<>>, None)
    ELSE IF interned /\ content = "file"
    THEN ImportResult(Exc("NameError", "name 'fname' is not defined", <<>>), <<>>, None)
    ELSE
    Let(_call_api(built.pl, "imp_" \o content, FALSE, resp), LAMBDA r :
    IF Raised(r.exc) THEN ImportResult(r.exc, r.requests, None)
    ELSE IF a.format = S("df")
    THEN IF dfout = "df"
         THEN ImportResult(NoExc, r.requests, Some([t |-> "df", v |-> <<r.body>>]))
         ELSE ImportResult(Exc(dfout, "StringIO/read_csv", <<>>), r.requests, None)
    ELSE IF ErrorInTuple(r.body, r.ctype)
    THEN ImportResult(Exc("RedcapError", "import rejected", <<r.body>>), r.requests, None)
    ELSE ImportResult(NoExc, r.requests,
                      Some([t |-> "tuple", v |-> <<r.body, r.ctype>>])))))

\* import_data without line 572: the version gate is never consulted
import_data_ungated(h, content, interned, action, a, resp, nonelt, dfout) ==
    import_body(h, content, interned, action, a, resp, dfout)

\* Project.import_data: the version gate first (line 572), then the rest
import_data(h, content, interned, action, a, resp, nonelt, dfout) ==
    Let(_check_version(h, content, action, nonelt), LAMBDA gate :
        IF Raised(gate) THEN ImportResult(gate, <<>>, None)
        ELSE import_body(h, content, interned, action, a, resp, dfout))

----------------------------------------------------------------------------
(* delete_data *)

\* the keyword arguments of delete_data, all supplied
DeleteSupplied ==
    [arms |-> PyList(<< <<"1">> >>), event |-> S("event_1_arm_1"),
     events |-> PyList(<< <<"event_1_arm_1">> >>), field |-> S("upload"),
     record |-> S("1"), return_format |-> S("json")]

DeleteDefaults ==
    [DeleteSupplied EXCEPT !.arms = PyNone, !.event = PyNone, !.events = PyNone,
                           !.field = PyNone, !.record = PyNone]

DeleteOther(p) == IF p = "return_format" THEN {} ELSE {PyNone}

DeleteCalls ==
    Varied({DeleteSupplied, DeleteDefaults}, DeleteOther, MaxOmitted)

\* the check for required parameters of delete_data, lines 661-669
delete_required(h, content, interned, action, a) ==
    LET Is(lit) == interned /\ content = lit
        act == S(action)
    IN  IF Is("arm") /\ ~All(<<act, a.arms>>)
        THEN Exc("RedcapError", "[arms] required for delete_arm", <<>>)
        ELSE IF Is("event") /\ ~All(<<act, a.events>>)
        THEN Exc("RedcapError", "[events] required for delete_event", <<>>)
        ELSE IF /\ Is("file")
                /\ ~All(<<act, a.record, a.field, a.event>>)
                /\ EqTrue(h.is_longitudinal)
        THEN Exc("RedcapError",
                 "[record,field,event] is required for longitudinal delete_file", <<>>)
        ELSE IF Is("file") /\ ~All(<<act, a.record, a.field>>)
        THEN Exc("RedcapError", "[record,field] is required for delete_file", <<>>)
        ELSE NoExc

\* str_add and to_add of delete_data
DeleteKeys == <<"action", "arms", "event", "events", "fields", "record">>
DeleteArgs(action, a) == <<S(action), a.arms, a.event, a.events, a.field, a.record>>

\* delete_data after the version gate, lines 661-682: the response tuple is
\* returned as it is
delete_body(h, content, interned, action, a, resp) ==
    Let(delete_required(h, content, interned, action, a), LAMBDA req :
    IF Raised(req) THEN ImportResult(req, <<>>, None)
    ELSE
    Let(AddParams(__basepl(content, "flat", a.return_format.v[1]), DeleteKeys,
                  DeleteArgs(action, a), {}, 1), LAMBDA built :
    Let(_call_api(built.pl, "del_" \o content, FALSE, resp), LAMBDA r :
    IF Raised(r.exc) THEN ImportResult(r.exc, r.requests, None)
    ELSE ImportResult(NoExc, r.requests,
                      Some([t |-> "tuple", v |-> <<r.body, r.ctype>>])))))

\* Project.delete_data: the version gate first (line 659), then the rest
delete_data(h, content, interned, action, a, resp, nonelt) ==
    Let(_check_version(h, content, action, nonelt), LAMBDA gate :
        IF Raised(gate) THEN ImportResult(gate, <<>>, None)
        ELSE delete_body(h, content, interned, action, a, resp))

----------------------------------------------------------------------------
(* The server: what the exports of a bootstrap meet *)

Rows ==
    {[field_name |-> "record_id", field_label |-> "Record ID",
      form_name |-> "demographics", field_type |-> "text"],
     [field_name |-> "age", field_label |-> "Age",
      form_name |-> "demographics", field_type |-> "text"],
     [field_name |-> "upload", field_label |-> "Upload",
      form_name |-> "files", field_type |-> "file"]}

\* metadata lists: one to MaxFields rows, field_name unique
MetadataLists ==
    {m \in UNION {[1..n -> Rows] : n \in 1..MaxFields} :
        \A i, j \in DOMAIN m : i # j => m[i].field_name # m[j].field_name}

MetadataResponses ==
    {Ok(ListBody(m)) : m \in MetadataLists} \cup {Ok(ErrBody)} \cup TransportFailures

VersionResponses ==
    {Ok(PyStr(<<"6.11.0">>)), Ok(ErrBody)} \cup TransportFailures

ProjectBody(n) == DictBody(<< <<"project_id", PyInt(13)>>, <<"is_longitudinal", PyInt(n)>> >>)

ProjectResponses ==
    {Ok(ProjectBody(0)), Ok(ProjectBody(1)), Response("RequestException", NoBody, None)}

EventsBody == ListBody(<<"event_1_arm_1">>)
ArmsBody == ListBody(<<[arm_num |-> 1, name |-> "Arm 1"]>>)

EventResponses == {Ok(EventsBody), Ok(ErrBody)}
ArmResponses == {Ok(ArmsBody), Ok(ErrBody), Response("RequestException", NoBody, None)}

Servers ==
    [metadata : MetadataResponses, version : VersionResponses,
     project : ProjectResponses, event : EventResponses, arm : ArmResponses]

----------------------------------------------------------------------------
(* Calls and their outcomes *)

NoArgs == [none |-> PyNone]
NoServer == [none |-> PyNone]

Call(op, content, action, interned, args, srv, e, reqs, ret, assigned, warned) ==
    [op |-> op, content |-> content, action |-> action, interned |-> interned,
     args |-> args, srv |-> srv, exc |-> e, requests |-> reqs, ret |-> ret,
     assigned |-> assigned, warned |-> warned, printed |-> FALSE]

\* a call that has printed a message on standard output
Printing(call, printed) == [call EXCEPT !.printed = printed]

NoCall == Call("none", "", "", FALSE, NoArgs, NoServer, NoExc, <<>>, None, {}, FALSE)

----------------------------------------------------------------------------
(* The state machine *)

\* The handle Project(url, token, lazy=True) returns. Project(url, token) runs
\* configure inside __init__, and its exception leaves the caller without a handle.
Init ==
    /\ handle = NewProject
    /\ last = NoCall
    /\ pc = "idle"

\* The caller has taken the result (the value returned or the exception raised).
Return ==
    /\ pc = "returned"
    /\ pc' = "idle"
    /\ last' = NoCall
    /\ UNCHANGED handle

\* project.configure()
Configure ==
    /\ pc = "idle"
    /\ \E srv \in Servers :
        \E run \in {configure(handle, srv)} :
            /\ handle' = run.h
            /\ last' = Call("configure", "", "", FALSE, NoArgs, srv, run.exc,
                            run.requests, None, run.assigned, run.warned)
    /\ pc' = "returned"

\* The cached attributes are plain attributes of the object, and a caller (a test
\* fixture, a script that knows its server) assigns them: the state lines 144-169
\* derive from a server's answers, with the version w.
SnapshotServers ==
    {srv \in Servers :
        /\ srv.metadata.status = "ok" /\ srv.metadata.body.t = "list"
        /\ Len(srv.metadata.body.v) = MaxFields
        /\ srv.metadata.body.v[1].field_name = "record_id"
        /\ srv.metadata.body.v[MaxFields].field_name = "upload"
        /\ srv.version = Ok(ErrBody)
        /\ srv.project.status = "ok" /\ ~IsErrorDict(srv.project.body)
        /\ srv.event.status = "ok" /\ srv.arm.status = "ok"
        /\ IsErrorDict(srv.event.body) = (srv.project.body = ProjectBody(0))
        /\ IsErrorDict(srv.arm.body) = (srv.project.body = ProjectBody(0))}

Snapshot(srv, w) ==
    Let(configure_project(Run([NewProject EXCEPT !.metadata = Some(srv.metadata.body),
                                                 !.redcap_version = Some(w)],
                              NoExc, <<>>, {}, FALSE), srv), LAMBDA r3 :
    Let(configure_derive(r3), LAMBDA r4 :
        configure_events_arms(r4, srv).h))

AssignAttributes ==
    /\ pc = "idle"
    /\ handle = NewProject
    /\ \E srv \in SnapshotServers, w \in Versions : handle' = Snapshot(srv, w)
    /\ UNCHANGED <<last, pc>>

\* project._check_version(content, action)
CheckVersion ==
    /\ pc = "idle"
    /\ \E content \in Contents, action \in Actions,
          nonelt \in (IF IsNone(handle.redcap_version) THEN NoneLessThan ELSE {"True"}) :
        last' = Call("_check_version", content, action, TRUE, NoArgs, NoServer,
                     _check_version(handle, content, action, nonelt), <<>>, None, {},
                     FALSE)
    /\ pc' = "returned"
    /\ UNCHANGED handle

\* the content types and actions the import and delete calls of the model pass
CallContents ==
    {"arm", "event", "file", "formEventMapping", "metadata", "record", "user",
     "project", "pdf"}
CallActions == {"import", "delete"}

\* what an import or a delete request meets
CallResponses ==
    {Ok(S("1")), Ok(ErrBody), Response("RequestException", NoBody, None)}

Met(resp) == [resp |-> resp]

\* project.import_data(content, action=..., ...)
ImportData ==
    /\ pc = "idle"
    /\ \E content \in CallContents, interned \in BOOLEAN, action \in CallActions,
          a \in ImportCalls,
          nonelt \in (IF IsNone(handle.redcap_version) THEN NoneLessThan ELSE {"True"}) :
        \E resp \in (IF import_data(handle, content, interned, action, a, Ok(S("1")),
                                    nonelt, "df").requests = <<>>
                     THEN {Ok(S("1"))} ELSE CallResponses),
           dfout \in (IF a.format = S("df") THEN DfOutcomes ELSE {"df"}) :
            \E out \in {import_data(handle, content, interned, action, a, resp,
                                    nonelt, dfout)} :
                last' = Call("import_data", content, action, interned, a, Met(resp),
                             out.exc, out.requests, out.ret, {}, FALSE)
    /\ pc' = "returned"
    /\ UNCHANGED handle

\* project.delete_data(content, action=..., ...)
DeleteData ==
    /\ pc = "idle"
    /\ \E content \in CallContents, interned \in BOOLEAN, action \in CallActions,
          a \in DeleteCalls,
          nonelt \in (IF IsNone(handle.redcap_version) THEN NoneLessThan ELSE {"True"}) :
        \E resp \in (IF delete_data(handle, content, interned, action, a, Ok(S("1")),
                                    nonelt).requests = <<>>
                     THEN {Ok(S("1"))} ELSE CallResponses) :
            \E out \in {delete_data(handle, content, interned, action, a, resp, nonelt)} :
                last' = Call("delete_data", content, action, interned, a, Met(resp),
                             out.exc, out.requests, out.ret, {}, FALSE)
    /\ pc' = "returned"
    /\ UNCHANGED handle

\* The bootstrap: configure calls on a fresh handle and on one whose attributes a
\* caller has assigned.
NextBootstrap ==
    \/ Configure
    \/ AssignAttributes
    \/ Return

SpecBootstrap == Init /\ [][NextBootstrap]_vars

\* The gated calls. They read redcap_version and is_longitudinal only, which a failed
\* configure leaves as they were.
NextCalls ==
    \/ AssignAttributes
    \/ CheckVersion
    \/ ImportData
    \/ DeleteData
    \/ Return

SpecCalls == Init /\ [][NextCalls]_vars

----------------------------------------------------------------------------
(* The version gate: claims C1 to C3 *)

Returned(op) == pc = "returned" /\ last.op = op

HasEntry(action, content) == <<action, content>> \in DOMAIN api_methods

\* precedence of a version as one number (minor and patch stay below 100)
Rank(w) == w[1] * 10000 + w[2] * 100 + w[3]

\* the gate fails: no capability entry, or a cached version below the entry's minimum
GateFails(h, action, content) ==
    \/ ~HasEntry(action, content)
    \/ /\ ~IsNone(h.redcap_version)
       /\ Rank(Val(h.redcap_version)) < Rank(api_methods[<<action, content>>].version)

VersionTooLow(name, min, cur) ==
    Exc("RedcapError", "Invalid REDCap version", <<name, min, Some(cur)>>)

Unsupported(action, content) ==
    Exc("RedcapError", "Method does not exist", <<action, content>>)

\* C1: an import_data or delete_data call whose version gate fails (no capability
\* entry, or a cached version below the entry's minimum) raises and has issued no
\* transport request; import_data('record') on a handle whose cached version is
\* 5.9.0 raises the version error naming import_records, 6.0.0 and 5.9.0.
C1_GateBeforeTransport ==
    (pc = "returned" /\ last.op \in {"import_data", "delete_data"}) =>
        /\ GateFails(handle, last.action, last.content) =>
               Raised(last.exc) /\ last.requests = <<>>
        /\ ( /\ last.op = "import_data" /\ last.content = "record"
             /\ last.action = "import"
             /\ handle.redcap_version = Some(Version(5, 9, 0)) ) =>
               /\ last.exc = VersionTooLow("import_records", Version(6, 0, 0),
                                           Version(5, 9, 0))
               /\ last.requests = <<>>

\* an import_data('record') call, every argument supplied, refused at version 5.9.0
C1_Witness ==
    /\ Returned("import_data") /\ last.content = "record" /\ last.action = "import"
    /\ last.args = ImportSupplied
    /\ handle.redcap_version = Some(Version(5, 9, 0))
    /\ last.exc.msg = "Invalid REDCap version"
    /\ last.requests = <<>>

\* C2: _check_version on an (action, content) pair without an entry in api_methods
\* raises the "method does not exist" error, whatever the cached version is.
C2_MissingEntryIsError ==
    (Returned("_check_version") /\ ~HasEntry(last.action, last.content)) =>
        last.exc = Unsupported(last.action, last.content)

\* _check_version('record', 'delete') refused on a handle whose version is 6.11.0
C2_Witness ==
    /\ Returned("_check_version") /\ last.action = "delete" /\ last.content = "record"
    /\ handle.redcap_version = Some(Version(6, 11, 0))
    /\ last.exc.msg = "Method does not exist"

\* C3: _check_version on a pair that has an entry, with a cached version v: it
\* raises the version error when v is lower than the entry's minimum version and
\* returns without error when v is greater than or equal to it.
C3_GateComparesVersions ==
    ( /\ Returned("_check_version") /\ HasEntry(last.action, last.content)
      /\ ~IsNone(handle.redcap_version) ) =>
        LET e == api_methods[<<last.action, last.content>>]
            v == Val(handle.redcap_version)
        IN  IF Rank(v) < Rank(e.version)
            THEN last.exc = VersionTooLow(e.name, e.version, v)
            ELSE last.exc = NoExc

\* version 6.4.0 refused for import_arms, whose minimum is 6.11.0
C3_Witness ==
    /\ Returned("_check_version") /\ last.action = "import" /\ last.content = "arm"
    /\ handle.redcap_version = Some(Version(6, 4, 0))
    /\ last.exc = VersionTooLow("import_arms", Version(6, 11, 0), Version(6, 4, 0))

----------------------------------------------------------------------------
(* The bootstrap: claims C4 to C9 *)

\* the errors configure raises for its first three steps
StepErrors ==
    {"Exporting metadata failed", "Determination of REDCap version failed",
     "Exporting project information failed"}

\* the answer is a decoded payload of the kind the step expects
MetadataOk(srv) == srv.metadata.status = "ok" /\ srv.metadata.body.t = "list"
VersionOk(srv) == srv.version.status = "ok" /\ srv.version.body.t = "str"
ProjectOk(srv) == srv.project.status = "ok" /\ ~IsErrorDict(srv.project.body)

\* C4: a configure call that fails at the metadata, version or project-info step
\* has assigned none of the cached fields of the handle.
C4_FailedStepAssignsNothing ==
    (Returned("configure") /\ last.exc.msg \in StepErrors) =>
        last.assigned = {} /\ ~handle.configured

C6_ErrorVersionIsUnknown ==
    (Returned("configure") /\ MetadataOk(last.srv) /\ last.srv.version = Ok(ErrBody)) =>
        /\ last.exc.msg # "Determination of REDCap version failed"
        /\ "redcap_version" \in last.assigned
        /\ last.warned
        /\ Len(last.requests) >= 3

\* C7: when the metadata, version and project-info exports succeed and the events
\* or the arms export answers with an error-shaped payload, configure completes
\* with configured true and the corresponding sequences empty (not None).
C7_ErrorEventsArmsAreEmpty ==
    ( /\ Returned("configure")
      /\ MetadataOk(last.srv) /\ VersionOk(last.srv) /\ ProjectOk(last.srv)
      /\ last.srv.event.status = "ok" /\ last.srv.arm.status = "ok"
      /\ IsErrorDict(last.srv.event.body) \/ IsErrorDict(last.srv.arm.body) ) =>
        /\ ~Raised(last.exc)
        /\ handle.configured
        /\ IsErrorDict(last.srv.event.body) => handle.events = Some(<<>>)
        /\ IsErrorDict(last.srv.arm.body) =>
               handle.arm_nums = Some(<<>>) /\ handle.arm_names = Some(<<>>)

\* C8: when the metadata export fails (the transport raises its own error or any
\* other error, such as one of decoding the response), configure raises the
\* metadata error, has issued the metadata request only and has assigned nothing.
C8_MetadataFailureIsMetadataError ==
    (Returned("configure") /\ last.srv.metadata.status # "ok") =>
        /\ last.exc = Exc("RedcapError", "Exporting metadata failed", <<>>)
        /\ Len(last.requests) = 1
        /\ last.assigned = {}

----------------------------------------------------------------------------
(* Required parameters of import_data: claim C10 *)

\* the required inputs of the import table, as arguments of import_data (`action`
\* is always passed by the calls of the model; `events` is no argument of
\* import_data)
RequiredInputs(content, longitudinal) ==
    CASE content = "arm" -> {"data", "override"}
      [] content = "event" -> {"data"}
      [] content = "file" -> IF longitudinal
                             THEN {"data", "file", "event", "override"}
                             ELSE {"record", "field", "file"}
      [] content \in {"formEventMapping", "metadata", "user"} -> {"data"}
      [] content = "record" -> {"typpe", "overwriteBehavior", "data"}
      [] OTHER -> {}

\* C10: an import_data call that names its content type by the literal, passes the
\* version gate and omits a required input of that content type raises RedcapError
\* and has issued no transport request.
C10_MissingInputFailsFirst ==
    ( /\ Returned("import_data") /\ last.action = "import" /\ last.interned
      /\ ~IsNone(handle.redcap_version)
      /\ ~GateFails(handle, last.action, last.content)
      /\ \E p \in RequiredInputs(last.content, EqTrue(handle.is_longitudinal)) :
            ~Truthy(last.args[p]) ) =>
        last.exc.exc = "RedcapError" /\ last.requests = <<>>

----------------------------------------------------------------------------
(* Required parameters of delete_data: claim C11 *)

\* the required inputs of delete_data, as its arguments
DeleteRequiredInputs(content, longitudinal) ==
    CASE content = "arm" -> {"arms"}
      [] content = "event" -> {"events"}
      [] content = "file" -> IF longitudinal THEN {"record", "field", "event"}
                             ELSE {"record", "field"}
      [] OTHER -> {}

\* C11: a delete_data call that passes the version gate raises RedcapError and
\* issues no request when a required input of its content type is missing ('arm':
\* arms; 'event': events; 'file': record and field, and event exactly when the
\* project is longitudinal), and issues its request when none is missing.
C11_DeleteValidatesFirst ==
    ( /\ Returned("delete_data") /\ last.action = "delete"
      /\ ~IsNone(handle.redcap_version)
      /\ ~GateFails(handle, last.action, last.content) ) =>
        IF \E p \in DeleteRequiredInputs(last.content, EqTrue(handle.is_longitudinal)) :
               ~Truthy(last.args[p])
        THEN last.exc.exc = "RedcapError" /\ last.requests = <<>>
        ELSE Len(last.requests) = 1

----------------------------------------------------------------------------
(* filter *)

\* A query, as filter uses it: the list fields() returns and the identifiers
\* filter(data, def_field) would return.
Query(fields, matches) == [fields |-> fields, matches |-> matches]

\* the set a list of names makes
Range(f) == {f[i] : i \in DOMAIN f}

UnknownField == Exc("ValueError", "One or more query keys not in project keys", <<>>)

\* filter without the test of lines 735-736
filter_unchecked(h, query, output_fields) ==
    IF IsNone(h.field_names)
    THEN ImportResult(Exc("TypeError", "'NoneType' object is not iterable", <<>>),
                      <<>>, None)
    ELSE ImportResult(Exc("AttributeError",
                          "'Project' object has no attribute 'export_records'", <<>>),
                      <<>>, None)

\* Project.filter: set(self.field_names) raises TypeError while field_names is None;
\* an unknown key raises ValueError; line 738 then reads self.export_records, which
\* the class does not define: AttributeError, and lines 739-753 are never reached.
filter(h, query, output_fields) ==
    IF IsNone(h.field_names)
    THEN ImportResult(Exc("TypeError", "'NoneType' object is not iterable", <<>>),
                      <<>>, None)
    ELSE IF ~(Range(query.fields) \subseteq Range(Val(h.field_names)))
    THEN ImportResult(UnknownField, <<>>, None)
    ELSE ImportResult(Exc("AttributeError",
                          "'Project' object has no attribute 'export_records'", <<>>),
                      <<>>, None)

----------------------------------------------------------------------------
(* Export and filter calls *)

\* most keyword arguments of an export_data call that differ from their defaults
MaxOptions == 2

\* the keyword arguments of export_data with their defaults, `format` included
ExportDefaults == [format |-> S("json")] @@ DefaultExportOpts

\* the other values a caller passes for a keyword argument
ExportOther(p) ==
    CASE p \in {"records", "fields", "forms", "events"} ->
             {PyList(<< <<"age">>, <<"sex">> >>), PyList(<<>>)}
      [] p = "arms" -> {PyList(<< <<"1">> >>)}
      [] p = "event" -> {S("event_1_arm_1")}
      [] p \in {"field", "record", "instrument", "report_id", "all_records"} -> {S("1")}
      [] p = "format" -> {S("df")}
      [] OTHER -> {}

ExportCalls == Varied({ExportDefaults}, ExportOther, MaxOptions)

ExportContents ==
    {"record", "metadata", "pdf", "surveyReturnCode", "surveyParticipantList"}

\* values of the content-type header of a response
FormPdf == <<"application/pdf", ";", " ", "name", "=", "\"", "form.pdf", "\"">>
PlainPdf == <<"application/pdf">>

\* what an export request meets: a body with or without a content-type header, or
\* a transport failure
ExportResponses ==
    {Response("ok", S("body"), None), Response("ok", S("body"), Some(FormPdf)),
     Response("ok", S("body"), Some(PlainPdf)),
     Response("RequestException", NoBody, None)}

\* project.export_data(content, ...)
ExportData ==
    /\ pc = "idle"
    /\ \E content \in ExportContents, o \in ExportCalls :
        \E interned \in (IF content = "pdf" THEN BOOLEAN ELSE {TRUE}),
           resp \in (IF export_data(handle, content, TRUE, o.format.v[1], o,
                                    Response("ok", S("body"), None), TRUE).requests = <<>>
                     THEN {Response("ok", S("body"), None)} ELSE ExportResponses),
           pandas \in (IF o.format = S("df") THEN BOOLEAN ELSE {TRUE}) :
            \E out \in {export_data(handle, content, interned, o.format.v[1], o, resp,
                                    pandas)} :
                last' = Printing(Call("export_data", content, "export", interned, o,
                                      Met(resp), out.exc, out.requests, out.ret, {},
                                      out.warned),
                                 out.printed)
    /\ pc' = "returned"
    /\ UNCHANGED handle

\* the field names queries refer to: two of the fixture's project, two of no project
QueryFields == {"record_id", "upload", "age", "sex"}

Queries ==
    {Query(f, m) : f \in {<<x>> : x \in QueryFields} \cup
                         {p \in QueryFields \X QueryFields : p[1] # p[2]},
                   m \in {<<>>, <<"1">>}}

OutputFields == {PyNone, PyList(<< <<"upload">> >>), S("upload")}

\* project.filter(query, output_fields)
Filter ==
    /\ pc = "idle"
    /\ \E query \in Queries, output_fields \in OutputFields :
        \E out \in {filter(handle, query, output_fields)} :
            last' = Call("filter", "", "", FALSE,
                         [query |-> query, output_fields |-> output_fields],
                         NoServer, out.exc, out.requests, out.ret, {}, FALSE)
    /\ pc' = "returned"
    /\ UNCHANGED handle

NextExports ==
    \/ AssignAttributes
    \/ ExportData
    \/ Filter
    \/ Return

SpecExports == Init /\ [][NextExports]_vars

----------------------------------------------------------------------------
(* filter: claims C12 and C13 *)

\* the query names a field that is not one of the project's field names
NamesUnknownField(h, query) ==
    \E i \in DOMAIN query.fields :
        \A j \in DOMAIN Val(h.field_names) : Val(h.field_names)[j] # query.fields[i]

\* C12: on a handle whose field_names are set, a filter call whose query names a
\* field that is not among them raises the unknown-field error (ValueError) and
\* has issued no request.
C12_UnknownFieldFailsFirst ==
    ( /\ Returned("filter") /\ ~IsNone(handle.field_names)
      /\ NamesUnknownField(handle, last.args.query) ) =>
        last.exc = UnknownField /\ last.requests = <<>>

\* a query on record_id and age against a project whose fields are record_id, upload
C12_Witness ==
    /\ Returned("filter")
    /\ handle.field_names = Some(<<"record_id", "upload">>)
    /\ last.args.query.fields = <<"record_id", "age">>
    /\ last.exc.exc = "ValueError"
    /\ last.requests = <<>>

\* C13: a filter call whose query names known fields only and matches no row
\* returns the empty list, and no request of the call carries an empty `records`.
C13_NoMatchReturnsEmpty ==
    ( /\ Returned("filter") /\ ~IsNone(handle.field_names)
      /\ ~NamesUnknownField(handle, last.args.query)
      /\ last.args.query.matches = <<>> ) =>
        /\ ~Raised(last.exc)
        /\ last.ret = Some(PyList(<<>>))
        /\ \A i \in DOMAIN last.requests :
               "records" \notin DOMAIN last.requests[i].payload

----------------------------------------------------------------------------
(* export_data: claims C14 to C16 and C18 *)

\* the payload of the request of an export_data call that has issued one
Outgoing == last.requests[1].payload

ListOptions == {"records", "fields", "forms", "events"}

\* C14: in the request of an export_data call, each of records, fields, forms and
\* events that the caller supplied as a non-empty list is under its key as one
\* str, the elements joined by commas in their order.
C14_ListsAreJoined ==
    (Returned("export_data") /\ Len(last.requests) = 1) =>
        \A p \in ListOptions :
            Truthy(last.args[p]) =>
                p \in DOMAIN Outgoing /\ Outgoing[p] = Join(last.args[p])

\* the options a caller may leave out, and the keys each may be sent under
OmittableOptions ==
    {"arms", "field", "report_id", "record", "event", "instrument", "records",
     "fields", "events", "forms", "all_records"}

OptionKeys(p) ==
    CASE p = "forms" -> {"forms", "form"}
      [] p = "all_records" -> {"all_records", "allrecords"}
      [] OTHER -> {p}

\* C15: in the request of an export_data call, an option that the caller left out
\* or supplied empty is under no key of the payload.
C15_AbsentOptionsAreOmitted ==
    (Returned("export_data") /\ Len(last.requests) = 1) =>
        \A p \in OmittableOptions :
            ~Truthy(last.args[p]) => OptionKeys(p) \cap DOMAIN Outgoing = {}

SurveyContents == {"surveyReturnCode", "surveyParticipantList"}

\* C16: an export_data call prints its message, issues no request and returns None
\* without raising when the project is longitudinal, the content is
\* surveyReturnCode or surveyParticipantList and no event is passed; in every other
\* case it prints nothing and goes on to its request.
C16_SurveyPrecheck ==
    Returned("export_data") =>
        IF /\ EqTrue(handle.is_longitudinal)
           /\ last.content \in SurveyContents
           /\ last.args.event = PyNone
        THEN /\ last.requests = <<>> /\ last.printed
             /\ ~Raised(last.exc) /\ IsNone(last.ret)
        ELSE ~last.printed /\ Len(last.requests) = 1

\* surveyParticipantList without event on a longitudinal project: the soft failure
C16_Witness ==
    /\ Returned("export_data") /\ last.content = "surveyParticipantList"
    /\ EqTrue(handle.is_longitudinal)
    /\ last.args.event = PyNone
    /\ last.printed /\ last.requests = <<>> /\ IsNone(last.ret)

\* the map the claim reads from a content-type header (a str is the sequence of its
\* symbols)
ExpectedMap(ctype) ==
    IF ctype = Some(FormPdf) THEN DictBody(<< << <<"name">>, <<"form.pdf">> >> >>)
    ELSE DictBody(<<>>)

\* C18: an export_data call that returns a response gives, for content 'pdf', the
\* pair of the body and the map read from the content-type header (name = form.pdf
\* for `application/pdf; name="form.pdf"`, empty without a header), and for any
\* other content with format json the body alone.
C18_PdfReturnsBodyAndMap ==
    ( /\ Returned("export_data") /\ ~Raised(last.exc) /\ Len(last.requests) = 1
      /\ last.args.format = S("json") ) =>
        LET resp == last.srv.resp
        IN  IF last.content = "pdf"
            THEN last.ret = Some([t |-> "tuple",
                                  v |-> <<resp.body, ExpectedMap(resp.ctype)>>])
            ELSE last.ret = Some(resp.body)

----------------------------------------------------------------------------
(* The response and the file of import_data: claims C17 and C19 *)

\* C17: an import_data call for a content other than 'file', with a format other
\* than 'df', whose request is answered: when the decoded body is a mapping with an
\* "error" key the call raises RedcapError, otherwise it returns the decoded body
\* itself.
C17_ImportResponse ==
    ( /\ Returned("import_data") /\ last.content # "file"
      /\ last.args.format # S("df")
      /\ Len(last.requests) = 1 /\ last.srv.resp.status = "ok" ) =>
        IF IsErrorDict(last.srv.resp.body)
        THEN last.exc.exc = "RedcapError"
        ELSE ~Raised(last.exc) /\ last.ret = Some(last.srv.resp.body)

\* C19: an import_data('file') call with every argument supplied that passes the
\* version gate issues exactly one request, which carries the file as an
\* attachment and not as a parameter of the payload, and returns the body of the
\* response when the request is answered.
C19_FileIsAttachment ==
    ( /\ Returned("import_data") /\ last.content = "file" /\ last.action = "import"
      /\ last.args = ImportSupplied
      /\ ~IsNone(handle.redcap_version)
      /\ ~GateFails(handle, last.action, last.content) ) =>
        /\ Len(last.requests) = 1
        /\ last.requests[1].files
        /\ "file" \notin DOMAIN last.requests[1].payload
        /\ last.srv.resp.status = "ok" => last.ret = Some(last.srv.resp.body)

----------------------------------------------------------------------------
(* The configured flag: claim C20 *)

\* C20: a configure call assigns configured only when it has not raised, has
\* issued its five exports and has assigned every cached field; a configure call
\* that raises has not assigned configured.
C20_ConfiguredWrittenLast ==
    Returned("configure") =>
        /\ "configured" \in last.assigned =>
               /\ ~Raised(last.exc)
               /\ Len(last.requests) = Len(BootContents)
               /\ CachedFields \subseteq last.assigned
        /\ Raised(last.exc) => "configured" \notin last.assigned

\* a configure call on a new handle that has assigned metadata and then raised
C20_Witness ==
    /\ Returned("configure") /\ Raised(last.exc)
    /\ "metadata" \in last.assigned
    /\ "configured" \notin last.assigned
    /\ ~handle.configured

=============================================================================
